---- MODULE Spec2Model ----
(***************************************************************************)
(* The pinned littlefs binding (src/src/pinned.rs): construction of the    *)
(* Allocation from a Storage geometry, the four bridge callbacks, and the  *)
(* Filesystem / RawFile lifecycle on top of the native engine.             *)
(*                                                                         *)
(* Two specifications:                                                     *)
(*   SpecGeom  Allocation::new over many geometries and the callbacks      *)
(*             the engine invokes on a configured Filesystem;              *)
(*   Spec      the lifecycle: format_storage, mount, create_dir,           *)
(*             create_dir_all, open_file, open_file_and_then, drop.        *)
(*                                                                         *)
(* The native engine (the ll::lfs functions) is an external collaborator:  *)
(* it is modelled by its contract (status codes, the tree it keeps).       *)
(***************************************************************************)
EXTENDS Integers, Sequences, FiniteSets, TLC

VARIABLES
    debug_assertions,   \* the build: TRUE when debug_assert! and overflow checks are compiled in
    geometry,           \* the constants of the Storage implementation
    fs,                 \* the Filesystem: allocation (config, engine state), initialized
    disk,               \* what the engine keeps on the Storage: formatted, dirs, files
    files,              \* the RawFile objects of the caller
    calls,              \* the engine calls issued by the last operation, in order
    last,               \* the last operation: its name, arguments, result and pre-state
    cb,                 \* the last bridge callback invocation and the Storage call it made
    panicked            \* the process has panicked (assertion, todo!, panic!)

vars == <<debug_assertions, geometry, fs, disk, files, calls, last, cb, panicked>>

----------------------------------------------------------------------------
(* Bounds of the model.                                                    *)

\* Depth of the deepest directory chain (/a/b/c has depth 3).
MaxDepth == 3
\* Number of RawFile objects the caller holds.
MaxFiles == 2
\* Largest number of bytes written to or read from a file.
MaxBytes == 1
\* Largest buffer length handed to a read or prog callback.
MaxCbSize == 1

----------------------------------------------------------------------------
(* u32 and usize arithmetic.  A u32 is a pair of 16-bit limbs <<lo, hi>>,  *)
(* a usize (64-bit target) four limbs, least significant first, so that    *)
(* products beyond 2^32 are computed exactly.                              *)

Limb == 256 * 256

\* The product of two limbs as <<lo, hi>>, computed on 8-bit halves.
MulLimb(a, b) ==
    LET a0 == a % 256
        a1 == a \div 256
        b0 == b % 256
        b1 == b \div 256
        mid == a1 * b0 + a0 * b1
        t == (mid % 256) * 256 + a0 * b0
    IN  <<t % Limb, a1 * b1 + (mid \div 256) + (t \div Limb)>>

\* A number below 2^31 as a u32.
U32(n) == <<n % Limb, n \div Limb>>

\* `x as usize` of a u32: zero extension.
AsUsize(a) == <<a[1], a[2], 0, 0>>

\* The exact product of two u32 values, four limbs.
FullMul(a, b) ==
    LET p00 == MulLimb(a[1], b[1])
        p01 == MulLimb(a[1], b[2])
        p10 == MulLimb(a[2], b[1])
        p11 == MulLimb(a[2], b[2])
        t1 == p00[2] + p01[1] + p10[1]
        t2 == p01[2] + p10[2] + p11[1] + (t1 \div Limb)
    IN  <<p00[1], t1 % Limb, t2 % Limb, p11[2] + (t2 \div Limb)>>

\* The sum of two four-limb values (modulo 2^64).
WideAdd(x, y) ==
    LET t1 == x[1] + y[1]
        t2 == x[2] + y[2] + (t1 \div Limb)
        t3 == x[3] + y[3] + (t2 \div Limb)
        t4 == x[4] + y[4] + (t3 \div Limb)
    IN  <<t1 % Limb, t2 % Limb, t3 % Limb, t4 % Limb>>

\* The low 32 bits of a four-limb value, and whether nothing was cut off.
Trunc32(w) == <<w[1], w[2]>>
Fits32(w) == w[3] = 0 /\ w[4] = 0

\* u32 `a * b`: the wrapped value, and whether the exact product overflowed.
u32_mul(a, b) ==
    LET p == FullMul(a, b)
    IN  [val |-> Trunc32(p), overflow |-> ~Fits32(p)]

\* u32 `a + b`.
u32_add(a, b) ==
    LET s == WideAdd(AsUsize(a), AsUsize(b))
    IN  [val |-> Trunc32(s), overflow |-> ~Fits32(s)]

----------------------------------------------------------------------------
(* Storage geometry and Allocation::new.                                   *)

\* crate::consts, as Allocation::new asserts them.
FILENAME_MAX_PLUS_ONE == 256
PATH_MAX_PLUS_ONE == 256
FILEBYTES_MAX == 2147483647
ATTRBYTES_MAX == 1022

Geometry(rs, ws, bs, bc, cy, cs, la) ==
    [read_size |-> rs, write_size |-> ws, block_size |-> bs, block_count |-> bc,
     block_cycles |-> cy, cache_size |-> cs, lookahead |-> la]

\* The Storage of tests/ram_storage_full.rs (BLOCK_CYCLES is the macro's -1).
TestGeometry == Geometry(16, 512, 512, 8192 \div 512, -1, 128, 1)

\* A Storage whose geometry passes every assertion.
SmallGeometry == Geometry(16, 16, 512, 16, -1, 128, 1)

\* A Storage of more than 4 GiB: 65537 blocks of 64 KiB.
BigGeometry == Geometry(16, 16, 256 * 256, 256 * 256 + 1, -1, 128, 1)

\* The locals of Allocation::new (lines 66-72).
lookahead_size(g) == 8 * g.lookahead

\* GeometryAsserts without its last line (block size a multiple of the cache size).
GeometryAsserts_NoBlockMultiple(g) ==
    /\ g.block_cycles >= -1
    /\ g.block_cycles # 0
    /\ g.block_count > 0
    /\ g.read_size > 0
    /\ g.write_size > 0
    /\ g.block_size >= 128
    /\ g.cache_size > 0
    /\ lookahead_size(g) > 0
    /\ g.read_size <= g.cache_size
    /\ g.cache_size % g.read_size = 0
    /\ g.write_size <= g.cache_size
    /\ g.cache_size % g.write_size = 0
    /\ g.cache_size <= g.block_size

\* The debug_assert!s on the geometry, in the order of the code.
GeometryAsserts(g) ==
    /\ g.block_cycles >= -1
    /\ g.block_cycles # 0
    /\ g.block_count > 0
    /\ g.read_size > 0
    /\ g.write_size > 0
    /\ g.block_size >= 128
    /\ g.cache_size > 0
    /\ lookahead_size(g) > 0
    /\ g.read_size <= g.cache_size
    /\ g.cache_size % g.read_size = 0
    /\ g.write_size <= g.cache_size
    /\ g.cache_size % g.write_size = 0
    /\ g.cache_size <= g.block_size
    /\ g.block_size % g.cache_size = 0

\* The debug_assert!s on the name and path limits.
NameAsserts ==
    /\ FILENAME_MAX_PLUS_ONE > 1
    /\ FILENAME_MAX_PLUS_ONE <= 1022 + 1
    /\ FILENAME_MAX_PLUS_ONE = 255 + 1
    /\ PATH_MAX_PLUS_ONE >= FILENAME_MAX_PLUS_ONE

\* The assert!s (kept in every build) on the file and attribute limits.
LimitAsserts ==
    /\ FILEBYTES_MAX > 0
    /\ FILEBYTES_MAX <= 2147483647
    /\ FILEBYTES_MAX = 2147483647
    /\ ATTRBYTES_MAX > 0
    /\ ATTRBYTES_MAX <= 1022
    /\ ATTRBYTES_MAX = 1022

\* Whether Allocation::new returns (TRUE) or panics (FALSE) in build dbg.
AllocationNewOk(g, dbg) ==
    /\ dbg => (GeometryAsserts(g) /\ NameAsserts)
    /\ LimitAsserts

\* A configuration record whose cache size is the read size.
NewConfig_ReadSizedCache(g) ==
    [context |-> "null",
     read |-> "lfs_config_read", prog |-> "lfs_config_prog",
     erase |-> "lfs_config_erase", sync |-> "lfs_config_sync",
     read_size |-> g.read_size, prog_size |-> g.write_size,
     block_size |-> g.block_size, block_count |-> g.block_count,
     block_cycles |-> g.block_cycles, cache_size |-> g.read_size,
     lookahead_size |-> lookahead_size(g),
     read_buffer |-> "null", prog_buffer |-> "null", lookahead_buffer |-> "null",
     name_max |-> FILENAME_MAX_PLUS_ONE - 1,
     file_max |-> FILEBYTES_MAX, attr_max |-> ATTRBYTES_MAX]

\* The configuration record Allocation::new assembles (lines 119-144).
NewConfig(g) ==
    [context |-> "null",
     read |-> "lfs_config_read", prog |-> "lfs_config_prog",
     erase |-> "lfs_config_erase", sync |-> "lfs_config_sync",
     read_size |-> g.read_size, prog_size |-> g.write_size,
     block_size |-> g.block_size, block_count |-> g.block_count,
     block_cycles |-> g.block_cycles, cache_size |-> g.cache_size,
     lookahead_size |-> lookahead_size(g),
     read_buffer |-> "null", prog_buffer |-> "null", lookahead_buffer |-> "null",
     name_max |-> FILENAME_MAX_PLUS_ONE - 1,
     file_max |-> FILEBYTES_MAX, attr_max |-> ATTRBYTES_MAX]

\* Cache::new: the three buffers and their byte lengths.
CacheNew(g) ==
    [read |-> g.cache_size, write |-> g.cache_size, lookahead |-> 8 * g.lookahead]

\* The byte length of the cache of a RawFile: Bytes<S::CACHE_SIZE>.
RawFileCache(g) == g.cache_size

\* No Filesystem has been constructed.
NoFs ==
    [alive |-> FALSE, initialized |-> FALSE, lfs |-> "none",
     config |-> NewConfig(Geometry(0, 0, 0, 0, 0, 0, 0)),
     cache |-> CacheNew(Geometry(0, 0, 0, 0, 0, 0, 0))]

\* Filesystem::mount: Allocation::new, the Storage moved in, initialized = false.
FilesystemMount(g) ==
    [alive |-> TRUE, initialized |-> FALSE, lfs |-> "zeroed",
     config |-> NewConfig(g), cache |-> CacheNew(g)]

\* The addresses the model tells apart.  The Storage and the three cache
\* buffers live inside the pinned Filesystem.  `cache` in configure is the
\* projection of the Cache, a local of configure whose fields are pinned
\* references to the buffers: the address of such a field is a slot of
\* configure's stack frame, dead once configure has returned.
StorageAddr == "storage"
CacheBuffers == {"cache.read", "cache.write", "cache.lookahead"}
ProjectionField(name) == "configure.cache." \o name
ConfigureLocals == {ProjectionField(n) : n \in {"read", "write", "lookahead"}}

\* Filesystem::configure: context is the address of the Storage
\* (`this.storage as *mut _`); the three buffer pointers are
\* `&mut cache.read as *mut _` and the like, the addresses of the fields
\* of the local projection.
configure(f) ==
    [f EXCEPT !.config = [@ EXCEPT !.context = StorageAddr,
                                   !.read_buffer = ProjectionField("read"),
                                   !.prog_buffer = ProjectionField("write"),
                                   !.lookahead_buffer = ProjectionField("lookahead")]]

----------------------------------------------------------------------------
(* Status codes of the engine and their translation (crate::io).           *)

LFS_ERR_OK == 0
LFS_ERR_IO == -5
LFS_ERR_CORRUPT == -84
LFS_ERR_NOENT == -2
LFS_ERR_EXIST == -17
LFS_ERR_NOTDIR == -20
LFS_ERR_ISDIR == -21
LFS_ERR_NOSPC == -28
LFS_ERR_BADF == -9

\* io::result_from: 0 is Ok, a negative code the typed error.
result_from(rc) ==
    CASE rc >= 0 -> "Ok"
      [] rc = LFS_ERR_IO -> "Io"
      [] rc = LFS_ERR_CORRUPT -> "Corruption"
      [] rc = LFS_ERR_NOENT -> "NoSuchEntry"
      [] rc = LFS_ERR_EXIST -> "EntryAlreadyExisted"
      [] rc = LFS_ERR_NOTDIR -> "PathNotDir"
      [] rc = LFS_ERR_ISDIR -> "PathIsDir"
      [] rc = LFS_ERR_NOSPC -> "NoSpace"
      [] rc = LFS_ERR_BADF -> "BadFileDescriptor"
      [] OTHER -> "Unknown"

\* io::error_code_from: Ok is 0, an error of the Storage the I/O-error code.
error_code_from(sres) == IF sres = "Ok" THEN LFS_ERR_OK ELSE LFS_ERR_IO

----------------------------------------------------------------------------
(* The callback bridge.  Each operator gives the outcome of one invocation:*)
(* whether it panicked, the Storage calls it made, and the code returned.  *)

NoCb == [fn |-> "none", block |-> 0, off |-> 0, size |-> 0,
         panic |-> FALSE, storage |-> <<>>, ret |-> 0, context |-> "null"]

\* `(block * block_size + off) as usize`, computed in u32: with overflow
\* checks (a debug build) an overflow panics, without them it wraps.
u32_offset(block, block_size, off) ==
    LET m == u32_mul(U32(block), U32(block_size))
        a == u32_add(m.val, U32(off))
    IN  [val |-> AsUsize(a.val), overflow |-> m.overflow \/ a.overflow]

\* The block size comes from the configuration record; sres is what
\* Storage::read returns.
lfs_config_read(c, dbg, block, off, size, sres) ==
    LET o == u32_offset(block, c.block_size, off)
    IN  IF dbg /\ o.overflow
        THEN [fn |-> "read", block |-> block, off |-> off, size |-> size,
              panic |-> TRUE, storage |-> <<>>, ret |-> 0, context |-> c.context]
        ELSE [fn |-> "read", block |-> block, off |-> off, size |-> size,
              panic |-> FALSE,
              storage |-> <<[op |-> "read", off |-> o.val, len |-> size, res |-> sres]>>,
              ret |-> error_code_from(sres), context |-> c.context]

\* A prog callback that reports success whatever the Storage returned.
lfs_config_prog_Swallow(c, g, dbg, block, off, size, sres) ==
    [fn |-> "prog", block |-> block, off |-> off, size |-> size,
     panic |-> FALSE,
     storage |-> <<[op |-> "write", off |-> u32_offset(block, g.block_size, off).val,
                    len |-> size, res |-> sres]>>,
     ret |-> 0, context |-> c.context]

\* The block size is Storage::BLOCK_SIZE as u32; sres is what
\* Storage::write returns.
lfs_config_prog(c, g, dbg, block, off, size, sres) ==
    LET o == u32_offset(block, g.block_size, off)
    IN  IF dbg /\ o.overflow
        THEN [fn |-> "prog", block |-> block, off |-> off, size |-> size,
              panic |-> TRUE, storage |-> <<>>, ret |-> 0, context |-> c.context]
        ELSE [fn |-> "prog", block |-> block, off |-> off, size |-> size,
              panic |-> FALSE,
              storage |-> <<[op |-> "write", off |-> o.val, len |-> size, res |-> sres]>>,
              ret |-> error_code_from(sres), context |-> c.context]

\* An erase callback that multiplies in u32 as read and prog do.
lfs_config_erase_Narrow(c, g, block, sres) ==
    [fn |-> "erase", block |-> block, off |-> 0, size |-> 0,
     panic |-> FALSE,
     storage |-> <<[op |-> "erase",
                    off |-> u32_offset(block, g.block_size, 0).val,
                    len |-> g.block_size, res |-> sres]>>,
     ret |-> error_code_from(sres), context |-> c.context]

\* `block as usize * BLOCK_SIZE as usize`: a 64-bit product, never cut.
lfs_config_erase(c, g, block, sres) ==
    [fn |-> "erase", block |-> block, off |-> 0, size |-> 0,
     panic |-> FALSE,
     storage |-> <<[op |-> "erase",
                    off |-> FullMul(U32(block), U32(g.block_size)),
                    len |-> g.block_size, res |-> sres]>>,
     ret |-> error_code_from(sres), context |-> c.context]

\* A sync callback that reports a failure.
lfs_config_sync_Failing(c) ==
    [fn |-> "sync", block |-> 0, off |-> 0, size |-> 0,
     panic |-> FALSE, storage |-> <<>>, ret |-> LFS_ERR_IO, context |-> c.context]

\* The context is not read (`_c`); nothing is called.
lfs_config_sync(c) ==
    [fn |-> "sync", block |-> 0, off |-> 0, size |-> 0,
     panic |-> FALSE, storage |-> <<>>, ret |-> 0, context |-> c.context]

----------------------------------------------------------------------------
(* The geometries and callback arguments the model draws from.             *)

ReadSizes == {0, 16, 48}
WriteSizes == {0, 16, 48, 512}
BlockSizes == {96, 128, 512, 256 * 256}
BlockCounts == {0, 16, 256 * 256 + 1}
BlockCycles == {-2, -1, 0, 500}
CacheSizes == {0, 32, 96, 128}
LookaheadSizes == {0, 1}

\* In how many constants geometry g differs from geometry h.
Distance(g, h) ==
    Cardinality({k \in DOMAIN g : g[k] # h[k]})

\* The geometries at most two constants away from SmallGeometry: each
\* assertion fails alone and in pairs; TestGeometry and BigGeometry are among them.
Geometries ==
    {g \in {Geometry(rs, ws, bs, bc, cy, cs, la) :
               rs \in ReadSizes, ws \in WriteSizes, bs \in BlockSizes,
               bc \in BlockCounts, cy \in BlockCycles, cs \in CacheSizes,
               la \in LookaheadSizes} :
        Distance(g, SmallGeometry) <= 2}

\* Block indices below the block count: the first two and the last.
CbBlocks(g) == {k \in {0, 1, g.block_count - 1} : 0 <= k /\ k < g.block_count}

\* Offsets inside a block: the first two and the last.
CbOffsets(g) == {o \in {0, 1, g.block_size - 1} : 0 <= o /\ o < g.block_size}

CbSizes == 1..MaxCbSize

StorageResults == {"Ok", "Err"}

----------------------------------------------------------------------------
(* Paths.  A Path is a sequence of characters ending in the terminator     *)
(* NUL; the engine reads it up to the terminator.                          *)

NUL == "NUL"
SEP == "/"

\* The names of the directory chain a, a/b, a/b/c, ...
Names == <<"a", "b", "c", "d", "e", "f">>

\* PathBuf::from(&[u8]): the bytes, terminated.
PathBufFrom(bytes) == bytes \o <<NUL>>

\* path.as_ref().as_bytes(): the characters without the terminator.
as_bytes(path) == SubSeq(path, 1, Len(path) - 1)

RECURSIVE ChainBytes(_)
\* The characters of /a/b/... with d components.
ChainBytes(d) == IF d = 0 THEN <<>> ELSE ChainBytes(d - 1) \o <<SEP, Names[d]>>

\* path!("/a/b/c") and path!("a/b/c").
AbsPath(d) == PathBufFrom(ChainBytes(d))
RelPath(d) == PathBufFrom(Tail(ChainBytes(d)))

\* The paths handed to create_dir and create_dir_all.
DirPaths == {AbsPath(d) : d \in 1..MaxDepth} \cup {RelPath(MaxDepth)}

\* The path handed to open_file: a file in the root.
FilePaths == {PathBufFrom(<<SEP, "x">>)}

RECURSIVE Split(_, _, _)
\* The engine's reading of a path: its components, empty ones skipped.
Split(bytes, cur, acc) ==
    IF bytes = <<>> \/ Head(bytes) = NUL
    THEN IF cur = <<>> THEN acc ELSE Append(acc, cur)
    ELSE IF Head(bytes) = SEP
         THEN Split(Tail(bytes), <<>>, IF cur = <<>> THEN acc ELSE Append(acc, cur))
         ELSE Split(Tail(bytes), Append(cur, Head(bytes)), acc)

Components(path) == Split(path, <<>>, <<>>)

Parent(comps) == SubSeq(comps, 1, Len(comps) - 1)

----------------------------------------------------------------------------
(* OpenOptions: a set of flags and its bits.                               *)

READ == 1
WRITE == 2
CREATE == 256
EXCL == 512
TRUNCATE == 1024
APPEND == 2048

READWRITE == {READ, WRITE}

RECURSIVE bits(_)
\* FileOpenFlags::bits of a set of flags: their union as an integer.
bits(o) == IF o = {} THEN 0 ELSE LET v == CHOOSE x \in o : TRUE IN v + bits(o \ {v})

\* Whether flag v is set in the integer the engine receives.
HasFlag(b, v) == (b \div v) % 2 = 1

\* The OpenOptions the caller uses.
OptionSets == {{READ}, {WRITE, CREATE}, READWRITE}

----------------------------------------------------------------------------
(* The native engine, by its contract.  An operation of the binding works  *)
(* on a record m: the Filesystem, the disk, the RawFiles, the engine calls *)
(* issued so far, the value returned, and the injected fault (the at-th    *)
(* engine call of the operation fails with the given code).                *)

NoInj == [at |-> 0, code |-> 0]

\* The record of one engine call: what was called, with which pointers.
Call(m, fn, path, file, flags, fbuf, rc) ==
    [fn |-> fn, rc |-> rc, path |-> path, file |-> file, flags |-> flags,
     context |-> m.fs.config.context, read_buffer |-> m.fs.config.read_buffer,
     prog_buffer |-> m.fs.config.prog_buffer,
     lookahead_buffer |-> m.fs.config.lookahead_buffer,
     lfs |-> m.fs.lfs, file_buffer |-> fbuf, configured |-> m.configured]

Faulted(m) == Len(m.calls) + 1 = m.inj.at

\* The bytes the files on disk hold, by component path.
HasFile(d, comps) == \E e \in d.files : e.path = comps
FileData(d, comps) == (CHOOSE e \in d.files : e.path = comps).data
PutFile(d, comps, data) ==
    [d EXCEPT !.files = {e \in @ : e.path # comps} \cup {[path |-> comps, data |-> data]}]

\* lfs_format: an empty tree on the Storage.
lfs_format(m) ==
    LET rc == IF Faulted(m) THEN m.inj.code ELSE LFS_ERR_OK
        m1 == IF rc = LFS_ERR_OK
              THEN [m EXCEPT !.disk = [formatted |-> TRUE, dirs |-> {}, files |-> {}]]
              ELSE m
    IN  [m1 EXCEPT !.calls = Append(@, Call(m, "lfs_format", <<>>, 0, 0, "null", rc)),
                   !.rc = rc]

\* lfs_mount: succeeds on a formatted Storage.
lfs_mount(m) ==
    LET rc == IF Faulted(m) THEN m.inj.code
              ELSE IF m.disk.formatted THEN LFS_ERR_OK ELSE LFS_ERR_CORRUPT
        m1 == IF rc = LFS_ERR_OK THEN [m EXCEPT !.fs.lfs = "mounted"] ELSE m
    IN  [m1 EXCEPT !.calls = Append(@, Call(m, "lfs_mount", <<>>, 0, 0, "null", rc)),
                   !.rc = rc]

\* The status of mkdir on a healthy engine.
MkdirStatus(d, comps) ==
    IF comps = <<>> \/ comps \in d.dirs \/ HasFile(d, comps) THEN LFS_ERR_EXIST
    ELSE IF Parent(comps) # <<>> /\ HasFile(d, Parent(comps)) THEN LFS_ERR_NOTDIR
    ELSE IF Parent(comps) # <<>> /\ Parent(comps) \notin d.dirs THEN LFS_ERR_NOENT
    ELSE LFS_ERR_OK

lfs_mkdir(m, path) ==
    LET comps == Components(path)
        rc == IF Faulted(m) THEN m.inj.code ELSE MkdirStatus(m.disk, comps)
        m1 == IF rc = LFS_ERR_OK THEN [m EXCEPT !.disk.dirs = @ \cup {comps}] ELSE m
    IN  [m1 EXCEPT !.calls = Append(@, Call(m, "lfs_mkdir", path, 0, 0, "null", rc)),
                   !.rc = rc]

\* The status of opening a file on a healthy engine.
OpenStatus(d, comps, b) ==
    IF comps = <<>> \/ comps \in d.dirs THEN LFS_ERR_ISDIR
    ELSE IF HasFile(d, comps)
         THEN IF HasFlag(b, CREATE) /\ HasFlag(b, EXCL) THEN LFS_ERR_EXIST ELSE LFS_ERR_OK
    ELSE IF Parent(comps) # <<>> /\ Parent(comps) \notin d.dirs THEN LFS_ERR_NOENT
    ELSE IF HasFlag(b, CREATE) THEN LFS_ERR_OK ELSE LFS_ERR_NOENT

lfs_file_opencfg(m, f, path, b) ==
    LET comps == Components(path)
        rc == IF Faulted(m) THEN m.inj.code ELSE OpenStatus(m.disk, comps, b)
        data == IF HasFile(m.disk, comps) /\ ~HasFlag(b, TRUNCATE)
                THEN FileData(m.disk, comps) ELSE <<>>
        m1 == IF rc = LFS_ERR_OK
              THEN [m EXCEPT !.disk = PutFile(@, comps, data),
                             !.files[f].st = "open",
                             !.files[f].opened = TRUE,
                             !.files[f].path = path,
                             !.files[f].flags = b]
              ELSE m
    IN  [m1 EXCEPT !.calls = Append(@, Call(m, "lfs_file_opencfg", path, f, b,
                                            m.files[f].buffer, rc)),
                   !.rc = rc]

lfs_file_close(m, f) ==
    LET rc == IF Faulted(m) THEN m.inj.code ELSE LFS_ERR_OK
    IN  [m EXCEPT !.files[f].st = "closed",
                  !.files[f].closes = @ + 1,
                  !.calls = Append(@, Call(m, "lfs_file_close", <<>>, f, 0,
                                           m.files[f].buffer, rc)),
                  !.rc = rc]

\* lfs_file_write through an open handle, from position 0.
lfs_file_write(m, f, data) ==
    LET comps == Components(m.files[f].path)
        old == IF HasFile(m.disk, comps) THEN FileData(m.disk, comps) ELSE <<>>
        ok == m.files[f].st = "open" /\ HasFlag(m.files[f].flags, WRITE)
        rc == IF Faulted(m) THEN m.inj.code ELSE IF ok THEN LFS_ERR_OK ELSE LFS_ERR_BADF
        new == data \o SubSeq(old, Len(data) + 1, Len(old))
        m1 == IF rc = LFS_ERR_OK THEN [m EXCEPT !.disk = PutFile(@, comps, new)] ELSE m
    IN  [m1 EXCEPT !.calls = Append(@, Call(m, "lfs_file_write", <<>>, f, 0,
                                            m.files[f].buffer, rc)),
                   !.rc = rc]

\* The outcomes of reading through a RawFile that was never opened (its
\* state is all zeroes): nothing is read, or the engine rejects the handle.
UninitReads == {[ret |-> "Ok", data |-> <<>>], [ret |-> "BadFileDescriptor", data |-> <<>>]}

NoRead == [ret |-> "none", data |-> <<>>]

\* lfs_file_read of n bytes from position 0 through handle f.
lfs_file_read(m, f, n, ub) ==
    LET comps == Components(m.files[f].path)
        all == IF HasFile(m.disk, comps) THEN FileData(m.disk, comps) ELSE <<>>
        got == SubSeq(all, 1, IF n < Len(all) THEN n ELSE Len(all))
        r == IF Faulted(m) THEN [ret |-> result_from(m.inj.code), data |-> <<>>]
             ELSE IF m.files[f].st = "open"
                  THEN IF HasFlag(m.files[f].flags, READ)
                       THEN [ret |-> "Ok", data |-> got]
                       ELSE [ret |-> "BadFileDescriptor", data |-> <<>>]
                  ELSE ub
    IN  [m EXCEPT !.calls = Append(@, Call(m, "lfs_file_read", <<>>, f, 0,
                                           m.files[f].buffer,
                                           IF r.ret = "Ok" THEN Len(r.data) ELSE LFS_ERR_BADF)),
                  !.read = r,
                  !.handle = f]

----------------------------------------------------------------------------
(* The operations of pinned.rs on the record m.                            *)

\* A RawFile slot the caller has not created.
NoFile == [st |-> "none", opened |-> FALSE, path |-> <<>>, flags |-> 0,
           buffer |-> "null", closes |-> 0]

\* The local RawFile `file_alloc` of open_file_and_then.
FileAlloc == 0

\* The RawFiles of the caller.
Files == 1..MaxFiles

\* A panic: nothing after it runs.
Panic(m) == [m EXCEPT !.panicked = TRUE, !.ret = "panic"]

\* RawFile::new_uninit: zeroed memory; in a debug build the cache size is asserted.
new_uninit(m, f, g, dbg) ==
    IF dbg /\ ~(g.cache_size > 0)
    THEN Panic(m)
    ELSE [m EXCEPT !.files[f] = [NoFile EXCEPT !.st = "uninit"]]

\* RawFile::close: one lfs_file_close on the Filesystem's engine state.
RawFile_close(m, f) ==
    LET m1 == lfs_file_close(m, f)
    IN  [m1 EXCEPT !.ret = result_from(m1.rc)]

\* PinnedDrop for RawFile: the argument of close is todo!(), which is
\* evaluated first and panics, so close is never entered; the memory of
\* the RawFile is then reclaimed.
RawFile_drop(m, f) ==
    [Panic(m) EXCEPT !.files[f].st = "dropped"]

\* ensure_initialized without the call of configure.
ensure_initialized_NoConfigure(m) ==
    IF m.fs.initialized
    THEN [m EXCEPT !.ret = "Ok"]
    ELSE LET m2 == lfs_mount(m)
         IN  [m2 EXCEPT !.ret = result_from(m2.rc)]

\* Filesystem::ensure_initialized: configure, then the engine mount unless
\* `initialized` is set; nothing here assigns `initialized`.
ensure_initialized(m) ==
    LET m1 == [m EXCEPT !.fs = configure(@), !.configured = TRUE]
    IN  IF m1.fs.initialized
        THEN [m1 EXCEPT !.ret = "Ok"]
        ELSE LET m2 == lfs_mount(m1)
             IN  [m2 EXCEPT !.ret = result_from(m2.rc)]

\* format without the call of configure.
format_NoConfigure(m) ==
    LET m1 == lfs_format(m)
    IN  [m1 EXCEPT !.ret = result_from(m1.rc)]

\* Filesystem::format.
format(m) ==
    LET m1 == lfs_format([m EXCEPT !.fs = configure(@), !.configured = TRUE])
    IN  [m1 EXCEPT !.ret = result_from(m1.rc)]

\* Filesystem::format_storage: a Filesystem of its own around the Storage,
\* formatted and dropped at the end of the call.
format_storage(m, g, dbg) ==
    IF ~AllocationNewOk(g, dbg)
    THEN Panic(m)
    ELSE LET m1 == format([m EXCEPT !.fs = FilesystemMount(g)])
         IN  [m1 EXCEPT !.fs = m.fs]

\* Filesystem::create_dir.
create_dir(m, path) ==
    LET m1 == ensure_initialized(m)
    IN  IF m1.ret # "Ok"
        THEN m1
        ELSE LET m2 == lfs_mkdir(m1, path)
             IN  [m2 EXCEPT !.ret = result_from(m2.rc)]

\* A step that panics on EntryAlreadyExisted too.
create_dir_step_NoAbsorb(m, dir) ==
    LET m1 == create_dir(m, dir)
    IN  IF m1.ret = "Ok" THEN m1 ELSE Panic(m1)

\* A step that passes every error.
create_dir_step_Lenient(m, dir) == create_dir(m, dir)

\* One step of create_dir_all: Ok and EntryAlreadyExisted pass, the rest panics.
create_dir_step(m, dir) ==
    LET m1 == create_dir(m, dir)
    IN  IF m1.ret \in {"Ok", "EntryAlreadyExisted"} THEN m1 ELSE Panic(m1)

RECURSIVE create_dir_loop(_, _, _)
\* The loop of create_dir_all over the indices i (0-based) of the path's bytes.
create_dir_loop(m, bytes, i) ==
    IF m.panicked \/ i >= Len(bytes)
    THEN m
    ELSE IF bytes[i + 1] = SEP
         THEN create_dir_loop(create_dir_step(m, PathBufFrom(SubSeq(bytes, 1, i))),
                              bytes, i + 1)
         ELSE create_dir_loop(m, bytes, i + 1)

\* create_dir_all without the create_dir of the full path.
create_dir_all_SkipFinal(m, path) ==
    LET m1 == ensure_initialized(m)
    IN  IF m1.ret # "Ok"
        THEN m1
        ELSE LET m2 == create_dir_loop(m1, as_bytes(path), 0)
             IN  IF m2.panicked THEN m2 ELSE [m2 EXCEPT !.ret = "Ok"]

\* Filesystem::create_dir_all.
create_dir_all(m, path) ==
    LET m1 == ensure_initialized(m)
    IN  IF m1.ret # "Ok"
        THEN m1
        ELSE LET m2 == create_dir_loop(m1, as_bytes(path), 0)
                 m3 == IF m2.panicked THEN m2 ELSE create_dir_step(m2, path)
             IN  IF m3.panicked THEN m3 ELSE [m3 EXCEPT !.ret = "Ok"]

\* open_file handing the engine the READ bit whatever the options.
open_file_ReadOnly(m, path, f, options) ==
    LET m1 == ensure_initialized(m)
    IN  IF m1.ret # "Ok"
        THEN m1
        ELSE LET m2 == [m1 EXCEPT !.files[f].buffer = "file.cache"]
                 m3 == lfs_file_opencfg(m2, f, path, bits({READ}))
             IN  [m3 EXCEPT !.ret = result_from(m3.rc)]

\* open_file binding the file's buffer before ensure_initialized.
open_file_BindFirst(m, path, f, options) ==
    LET m0 == [m EXCEPT !.files[f].buffer = "file.cache"]
        m1 == ensure_initialized(m0)
    IN  IF m1.ret # "Ok"
        THEN m1
        ELSE LET m3 == lfs_file_opencfg(m1, f, path, bits(options))
             IN  [m3 EXCEPT !.ret = result_from(m3.rc)]

\* Filesystem::open_file: the `?` after ensure_initialized returns the
\* mount's error before the file is touched; file.config.buffer is the
\* address of the file's own cache (`file.cache.get_unchecked_mut()`).
open_file(m, path, f, options) ==
    LET m1 == ensure_initialized(m)
    IN  IF m1.ret # "Ok"
        THEN m1
        ELSE LET m2 == [m1 EXCEPT !.files[f].buffer = "file.cache"]
                 m3 == lfs_file_opencfg(m2, f, path, bits(options))
             IN  [m3 EXCEPT !.ret = result_from(m3.rc)]

\* The closure handed to open_file_and_then: it reads n bytes through the
\* RawFile it is given and returns the status of the read.
closure(m, h, n, ub) ==
    LET m1 == lfs_file_read(m, h, n, ub)
    IN  [m1 EXCEPT !.ret = m1.read.ret]

\* Filesystem::open_file_and_then: `file` is opened, the closure receives
\* the local `file_alloc`, and `file_alloc` is dropped on every way out.
open_file_and_then(m, path, f, options, g, dbg, n, ub) ==
    LET m0 == new_uninit(m, FileAlloc, g, dbg)
        m1 == IF m0.panicked THEN m0 ELSE open_file(m0, path, f, options)
    IN  IF m1.panicked THEN m1
        ELSE IF m1.ret # "Ok"
             THEN RawFile_drop(m1, FileAlloc)
             ELSE RawFile_drop(closure(m1, FileAlloc, n, ub), FileAlloc)

----------------------------------------------------------------------------
(* The state machine.                                                      *)

NoOp == [op |-> "none", path |-> <<>>, file |-> 0, options |-> {}, n |-> 0,
         ret |-> "none", fault |-> FALSE, handle |-> -1, read |-> NoRead]

\* The engine call of an operation that may be made to fail, and how: an
\* operation issuing at most k engine calls draws from Injections(k).
FaultCodes == {LFS_ERR_IO}
Injections(k) == {NoInj} \cup {[at |-> a, code |-> c] : a \in 1..k, c \in FaultCodes}

\* The bytes a caller writes: n times 0x42.
Data(n) == [i \in 1..n |-> 66]

\* The record an operation starts from.
Start(inj) ==
    [fs |-> fs, disk |-> disk, files |-> files, calls |-> <<>>, rc |-> 0,
     ret |-> "none", panicked |-> FALSE, inj |-> inj, handle |-> -1, read |-> NoRead,
     configured |-> FALSE]

\* The state after an operation that ended in record m.
Finish(m, op, path, f, options, n) ==
    /\ fs' = m.fs
    /\ disk' = m.disk
    /\ files' = m.files
    /\ calls' = m.calls
    /\ panicked' = m.panicked
    /\ last' = [op |-> op, path |-> path, file |-> f, options |-> options, n |-> n,
                ret |-> m.ret,
                fault |-> (m.inj.at > 0 /\ m.inj.at <= Len(m.calls)),
                handle |-> m.handle, read |-> m.read]
    /\ UNCHANGED <<debug_assertions, geometry, cb>>

\* Filesystem::format_storage(&mut storage), before the Storage is moved
\* into a Filesystem.
FormatStorage ==
    /\ ~panicked /\ ~fs.alive
    /\ \E inj \in Injections(1) :
          Finish(format_storage(Start(inj), geometry, debug_assertions),
                 "format_storage", <<>>, 0, {}, 0)

\* Filesystem::mount(storage).
Mount ==
    /\ ~panicked /\ ~fs.alive
    /\ IF AllocationNewOk(geometry, debug_assertions)
       THEN fs' = FilesystemMount(geometry) /\ panicked' = FALSE
       ELSE fs' = fs /\ panicked' = TRUE
    /\ calls' = <<>>
    /\ last' = [NoOp EXCEPT !.op = "mount",
                            !.ret = IF panicked' THEN "panic" ELSE "Ok"]
    /\ UNCHANGED <<debug_assertions, geometry, disk, files, cb>>

CreateDir ==
    /\ ~panicked /\ fs.alive
    /\ \E path \in DirPaths, inj \in Injections(2) :
          Finish(create_dir(Start(inj), path), "create_dir", path, 0, {}, 0)

CreateDirAll ==
    /\ ~panicked /\ fs.alive
    /\ \E path \in DirPaths :
       \E inj \in Injections(2 * Len(Components(path)) + 3) :
          Finish(create_dir_all(Start(inj), path), "create_dir_all", path, 0, {}, 0)

\* unsafe RawFile::new_uninit() by the caller; the RawFiles are numbered in
\* the order of their creation.
NewUninit ==
    /\ ~panicked
    /\ \E f \in Files :
          /\ files[f].st = "none"
          /\ \A h \in Files : h < f => files[h].st # "none"
          /\ Finish(new_uninit(Start(NoInj), f, geometry, debug_assertions),
                    "new_uninit", <<>>, f, {}, 0)

OpenFile ==
    /\ ~panicked /\ fs.alive
    /\ \E f \in Files, path \in FilePaths, o \in OptionSets, inj \in Injections(2) :
          /\ files[f].st = "uninit"
          /\ Finish(open_file(Start(inj), path, f, o), "open_file", path, f, o, 0)

OpenFileAndThen ==
    /\ ~panicked /\ fs.alive
    /\ \E f \in Files, path \in FilePaths, o \in OptionSets, inj \in Injections(3),
          n \in 1..MaxBytes, ub \in UninitReads :
          /\ files[f].st = "uninit"
          /\ Finish(open_file_and_then(Start(inj), path, f, o, geometry,
                                       debug_assertions, n, ub),
                    "open_file_and_then", path, f, o, n)

\* The caller writes n bytes through an open RawFile.
WriteFile ==
    /\ ~panicked /\ fs.alive
    /\ \E f \in Files, n \in 1..MaxBytes, inj \in Injections(1) :
          /\ files[f].st = "open"
          /\ LET m == lfs_file_write(Start(inj), f, Data(n))
             IN  Finish([m EXCEPT !.ret = result_from(m.rc)], "write",
                        files[f].path, f, {}, n)

\* A RawFile of the caller goes out of scope.
DropFile ==
    /\ ~panicked
    /\ \E f \in Files :
          /\ files[f].st \in {"uninit", "open"}
          /\ Finish(RawFile_drop(Start(NoInj), f), "drop", <<>>, f, {}, 0)

\* An operation of the Filesystem has run configure and entered the engine;
\* the engine invokes the bridge callbacks from inside such a call.
EngineCall ==
    /\ ~panicked /\ fs.alive
    /\ last.op # "engine_call"
    /\ fs' = configure(fs)
    /\ last' = [NoOp EXCEPT !.op = "engine_call", !.ret = "Ok"]
    /\ UNCHANGED <<debug_assertions, geometry, disk, files, calls, cb, panicked>>

\* One invocation of a bridge callback with outcome c.  The callbacks
\* touch nothing of the Filesystem: all they do is call the Storage.
Callback(c) ==
    /\ cb' = c
    /\ panicked' = c.panic
    /\ UNCHANGED <<debug_assertions, geometry, fs, disk, files, calls, last>>

ReadCb ==
    /\ ~panicked /\ last.op = "engine_call"
    /\ \E k \in CbBlocks(geometry), o \in CbOffsets(geometry), n \in CbSizes,
          r \in StorageResults :
          Callback(lfs_config_read(fs.config, debug_assertions, k, o, n, r))

ProgCb ==
    /\ ~panicked /\ last.op = "engine_call"
    /\ \E k \in CbBlocks(geometry), o \in CbOffsets(geometry), n \in CbSizes,
          r \in StorageResults :
          Callback(lfs_config_prog(fs.config, geometry, debug_assertions, k, o, n, r))

EraseCb ==
    /\ ~panicked /\ last.op = "engine_call"
    /\ \E k \in CbBlocks(geometry), r \in StorageResults :
          Callback(lfs_config_erase(fs.config, geometry, k, r))

SyncCb ==
    /\ ~panicked /\ last.op = "engine_call"
    /\ Callback(lfs_config_sync(fs.config))

InitCommon ==
    /\ fs = NoFs
    /\ disk = [formatted |-> FALSE, dirs |-> {}, files |-> {}]
    /\ files = [f \in {FileAlloc} \cup Files |-> NoFile]
    /\ calls = <<>>
    /\ last = NoOp
    /\ cb = NoCb
    /\ panicked = FALSE

\* The lifecycle in the build the tests run in (debug assertions on), over
\* the test's Storage and a Storage that passes the assertions.
Init ==
    /\ InitCommon
    /\ debug_assertions = TRUE
    /\ geometry \in {TestGeometry, SmallGeometry}

Next ==
    \/ FormatStorage
    \/ Mount
    \/ CreateDir
    \/ CreateDirAll
    \/ NewUninit
    \/ OpenFile
    \/ OpenFileAndThen
    \/ WriteFile
    \/ DropFile

Spec == Init /\ [][Next]_vars

\* Construction and the callback bridge, over all the geometries.
InitGeom ==
    /\ InitCommon
    /\ debug_assertions \in BOOLEAN
    /\ geometry \in Geometries

NextGeom ==
    \/ Mount
    \/ EngineCall
    \/ ReadCb
    \/ ProgCb
    \/ EraseCb
    \/ SyncCb

SpecGeom == InitGeom /\ [][NextGeom]_vars

----------------------------------------------------------------------------
(* Properties.                                                             *)

\* The engine calls of the last operation with the given name.
CallsOf(fn) == SelectSeq(calls, LAMBDA c : c.fn = fn)

\* What an operation returns when it returns an error.
Errors == {"Io", "Corruption", "NoSuchEntry", "EntryAlreadyExisted", "PathNotDir",
           "PathIsDir", "NoSpace", "BadFileDescriptor", "Unknown"}

\* C1 (as claimed): the engine mount is issued once; an operation on a
\* Filesystem whose engine state is already mounted issues no mount call.
C1_MountOnce ==
    \A i \in 1..Len(calls) :
        calls[i].fn = "lfs_mount" => calls[i].lfs # "mounted"

\* C2 (as claimed): a RawFile that was opened has received exactly one
\* engine close call when its memory is reclaimed; no file is closed twice
\* or closed without having been opened.
C2_ClosedBeforeReclaimed ==
    \A f \in DOMAIN files :
        /\ files[f].closes <= 1
        /\ files[f].closes > 0 => files[f].opened
        /\ (files[f].st = "dropped" /\ files[f].opened) => files[f].closes = 1

\* The sub-conditions C3 lists.
C3_Listed(g) ==
    /\ g.read_size > 0 /\ g.write_size > 0 /\ g.cache_size > 0
    /\ g.lookahead > 0 /\ g.block_count > 0
    /\ g.block_size >= 128
    /\ \E k \in 1..g.cache_size : k * g.read_size = g.cache_size
    /\ \E k \in 1..g.cache_size : k * g.write_size = g.cache_size
    /\ \E k \in 1..g.block_size : k * g.cache_size = g.block_size

\* C3 (as claimed): construction succeeds exactly when the listed
\* sub-conditions hold.
C3_Original ==
    last.op = "mount" => (last.ret = "Ok" <=> C3_Listed(geometry))

\* C3 (amended): in a build with debug assertions construction succeeds
\* exactly when the listed sub-conditions hold and the block-cycle budget is
\* -1 or positive; in a build without them it succeeds for every geometry.
C3_GeometryChecked ==
    last.op = "mount" =>
        (last.ret = "Ok" <=>
            (debug_assertions =>
                /\ C3_Listed(geometry)
                /\ geometry.block_cycles = -1 \/ geometry.block_cycles > 0))

\* C3 witness: a checked construction refused for the one reason that the
\* cache size (96) does not divide the block size (128).
C3_Witness ==
    /\ last.op = "mount" /\ last.ret = "panic" /\ debug_assertions
    /\ geometry = [SmallGeometry EXCEPT !.cache_size = 96, !.block_size = 128]

\* The byte offset K*B + O as an integer.
C4_Exact(k, b, o) == WideAdd(FullMul(U32(k), U32(b)), AsUsize(U32(o)))

\* C4 (as claimed): a read or prog callback for block K and offset O makes
\* exactly one Storage call, at byte offset K*B + O, of the requested length.
C4_ExactOffset ==
    (fs.alive /\ cb.fn \in {"read", "prog"}) =>
        /\ ~cb.panic
        /\ Len(cb.storage) = 1
        /\ cb.storage[1].op = (IF cb.fn = "read" THEN "read" ELSE "write")
        /\ cb.storage[1].off = C4_Exact(cb.block, geometry.block_size, cb.off)
        /\ cb.storage[1].len = cb.size

\* C5 (as claimed): with the test's geometry, constructing the Filesystem,
\* formatting and mounting raise no assertion failure, and with an engine
\* whose calls succeed the directory steps return success.
C5_ScenarioSucceeds ==
    geometry = TestGeometry =>
        /\ last.op \in {"mount", "format_storage"} => last.ret # "panic"
        /\ (last.op = "format_storage" /\ ~last.fault) => last.ret = "Ok"

\* The paths of the lfs_mkdir calls of the last operation, in order.
MkdirPaths == LET c == CallsOf("lfs_mkdir") IN [i \in 1..Len(c) |-> c[i].path]

\* The positions of the separators in a path, and the k-th of them.
C6_Separators(bytes) == {i \in 1..Len(bytes) : bytes[i] = SEP}
C6_Kth(bytes, k) ==
    CHOOSE i \in C6_Separators(bytes) :
        Cardinality({j \in C6_Separators(bytes) : j < i}) = k - 1

\* The prefixes ending just before a separator, by increasing length, then
\* the full path.
C6_Expected(path) ==
    LET bytes == SubSeq(path, 1, Len(path) - 1)
        n == Cardinality(C6_Separators(bytes))
    IN  [k \in 1..(n + 1) |->
            IF k <= n THEN SubSeq(bytes, 1, C6_Kth(bytes, k) - 1) \o <<NUL>> ELSE path]

\* C6: create_dir_all calls create_dir once for each prefix ending just
\* before a separator, by increasing length, then once for the full path;
\* on a formatted Storage with no failing engine call it returns Ok,
\* whichever of the directories existed before, and when it returns Ok
\* every directory of the chain exists.
C6_CreateDirAllPrefixes ==
    last.op = "create_dir_all" =>
        LET want == C6_Expected(last.path)
        IN  /\ Len(MkdirPaths) <= Len(want)
            /\ MkdirPaths = SubSeq(want, 1, Len(MkdirPaths))
            /\ (disk.formatted /\ ~last.fault) => last.ret = "Ok"
            /\ last.ret = "Ok" =>
                  /\ MkdirPaths = want
                  /\ \A d \in 1..Len(Components(last.path)) :
                        SubSeq(Components(last.path), 1, d) \in disk.dirs

\* C6 witness: create_dir_all of /a/b/c returned Ok where /a existed
\* before and /a/b/c did not.
C6_Witness ==
    /\ last.op = "create_dir_all" /\ last.path = AbsPath(3) /\ last.ret = "Ok"
    /\ \E i, j \in 1..Len(calls) :
          /\ calls[i].fn = "lfs_mkdir" /\ calls[i].path = AbsPath(1)
          /\ calls[i].rc = LFS_ERR_EXIST
          /\ calls[j].fn = "lfs_mkdir" /\ calls[j].path = AbsPath(3)
          /\ calls[j].rc = LFS_ERR_OK

\* The step creates a directory that exists already, on an engine whose
\* calls do not fail.
C7_Again(op) ==
    /\ last'.op = op
    /\ Components(last'.path) \in disk.dirs
    /\ ~last'.fault

\* C7 (as claimed): creating a directory that exists already yields
\* success and leaves the set of directories unchanged.
C7_Original ==
    [][(C7_Again("create_dir") \/ C7_Again("create_dir_all")) =>
          (last'.ret = "Ok" /\ disk'.dirs = disk.dirs)]_vars

\* C7 (amended): create_dir_all of a directory that exists already returns
\* Ok, absorbing the engine's already-exists status; create_dir of it
\* returns EntryAlreadyExisted; both leave the set of directories unchanged.
C7_DirectoryIdempotence ==
    [][/\ C7_Again("create_dir_all") =>
            /\ last'.ret = "Ok"
            /\ disk'.dirs = disk.dirs
            /\ calls'[Len(calls')].fn = "lfs_mkdir"
            /\ calls'[Len(calls')].rc = LFS_ERR_EXIST
       /\ C7_Again("create_dir") =>
            /\ last'.ret = "EntryAlreadyExisted"
            /\ disk'.dirs = disk.dirs]_vars

\* C7 witness: create_dir_all returned Ok for a directory it found existing.
C7_Witness ==
    /\ last.op = "create_dir_all" /\ last.ret = "Ok" /\ ~last.fault
    /\ calls[Len(calls)].fn = "lfs_mkdir"
    /\ calls[Len(calls)].path = last.path
    /\ calls[Len(calls)].rc = LFS_ERR_EXIST

\* C8 (as claimed): create_dir_all never returns an Err value.
C8_Original ==
    last.op = "create_dir_all" => last.ret \in {"Ok", "panic"}

\* C8 (amended): in create_dir_all every engine call before the last one
\* succeeded or reported already-exists; it returns Ok only when all did;
\* a create_dir step failing otherwise panics, and that failing call is the
\* last engine call; the only Err it returns is the error of its own first
\* mount, after which no engine call is issued.
C8_AbortOnError ==
    last.op = "create_dir_all" =>
        /\ last.ret \in {"Ok", "panic"} \cup Errors
        /\ \A i \in 1..(Len(calls) - 1) : calls[i].rc \in {LFS_ERR_OK, LFS_ERR_EXIST}
        /\ last.ret = "Ok" =>
              /\ \A i \in 1..Len(calls) : calls[i].rc \in {LFS_ERR_OK, LFS_ERR_EXIST}
              /\ \A i \in 1..Len(calls) :
                    calls[i].rc = LFS_ERR_EXIST => calls[i].fn = "lfs_mkdir"
        /\ last.ret = "panic" =>
              /\ Len(calls) > 1
              /\ calls[Len(calls)].rc \notin {LFS_ERR_OK, LFS_ERR_EXIST}
              /\ panicked
        /\ last.ret \in Errors =>
              /\ Len(calls) = 1
              /\ calls[1].fn = "lfs_mount"
              /\ last.ret = result_from(calls[1].rc)
              /\ ~panicked

\* C8 witness: a create_dir step inside create_dir_all failed after an
\* already-exists was absorbed.
C8_Witness ==
    /\ last.op = "create_dir_all" /\ last.ret = "panic"
    /\ calls[Len(calls)].fn = "lfs_mkdir"
    /\ \E i \in 1..Len(calls) : calls[i].rc = LFS_ERR_EXIST /\ Len(Components(calls[i].path)) > 0

\* C9 (as claimed): after N bytes were written to a file, open_file_and_then
\* on that path with a closure reading N bytes yields the bytes written.
C9_RoundTrip ==
    (/\ last.op = "open_file_and_then"
     /\ READ \in last.options
     /\ ~last.fault
     /\ HasFile(disk, Components(last.path))
     /\ Len(FileData(disk, Components(last.path))) = last.n) =>
        /\ last.read.ret = "Ok"
        /\ last.read.data = FileData(disk, Components(last.path))

BindingCalls == {"lfs_format", "lfs_mount", "lfs_mkdir", "lfs_file_opencfg",
                 "lfs_file_close"}

C12_BuffersWired ==
    /\ \A i \in 1..Len(calls) :
          calls[i].configured =>
              /\ calls[i].read_buffer = "cache.read"
              /\ calls[i].prog_buffer = "cache.write"
              /\ calls[i].lookahead_buffer = "cache.lookahead"
    /\ (fs.alive /\ fs.config.context # "null") =>
          /\ {fs.config.read_buffer, fs.config.prog_buffer,
               fs.config.lookahead_buffer} = CacheBuffers
          /\ fs.config.read_buffer \notin ConfigureLocals

\* C13 (as claimed): initialized is false until the first successful engine
\* mount and true in every state after ensure_initialized has returned
\* success; a failed mount leaves it false.
C13_InitializedFlag ==
    fs.alive => (fs.initialized <=> fs.lfs = "mounted")

\* The engine call a create_dir or an open_file is there to issue.
C14_Target(op) == IF op = "create_dir" THEN "lfs_mkdir" ELSE "lfs_file_opencfg"

\* The indices of the mount calls of the operation that failed.
C14_FailedMounts(cs) == {j \in 1..Len(cs) : cs[j].fn = "lfs_mount" /\ cs[j].rc # 0}

\* C14: a create_dir or an open_file issues its mkdir resp. open call only
\* after configure and a successful mount in the same call, and issues
\* exactly one such call; when the mount fails it returns the mount's
\* error, issues no mkdir or open call and leaves every RawFile (its
\* configuration record and state) and the directory tree unchanged.
C14_RequiresMounted ==
    [][(last'.op \in {"create_dir", "open_file"} /\ calls' # <<>>) =>
          LET fn == C14_Target(last'.op)
              issued == {i \in 1..Len(calls') : calls'[i].fn = fn}
          IN  /\ \A i \in issued :
                    /\ calls'[i].configured
                    /\ i > 1
                    /\ \A j \in 1..(i - 1) :
                          calls'[j].fn = "lfs_mount" /\ calls'[j].rc = 0
              /\ Cardinality(issued) <= 1
              /\ C14_FailedMounts(calls') = {} => Cardinality(issued) = 1
              /\ C14_FailedMounts(calls') # {} =>
                    /\ issued = {}
                    /\ Len(calls') = 1
                    /\ last'.ret = result_from(calls'[1].rc)
                    /\ last'.ret \in Errors
                    /\ files' = files
                    /\ disk' = disk]_vars

\* C14 witness: an open_file whose mount failed returned the mount's error
\* without an open call, on a RawFile that is still uninitialized.
C14_Witness ==
    /\ last.op = "open_file" /\ last.ret = "Io"
    /\ Len(calls) = 1 /\ calls[1].fn = "lfs_mount" /\ calls[1].rc = LFS_ERR_IO
    /\ files[last.file].st = "uninit" /\ files[last.file].buffer = "null"

\* C15 (as claimed): open_file_and_then invokes its closure only when the
\* open succeeded, and the RawFile the closure works on is the one that was
\* just opened; no RawFile is used before open_file has succeeded on it.
C15_ClosureOnOpenedFile ==
    (last.op = "open_file_and_then" /\ last.handle # -1) =>
        /\ \E i \in 1..Len(calls) :
              calls[i].fn = "lfs_file_opencfg" /\ calls[i].rc = 0
        /\ last.handle = last.file
        /\ files[last.handle].opened

\* Every flag of FileOpenFlags.
C16_Flags == {READ, WRITE, CREATE, EXCL, TRUNCATE, APPEND}

\* C16: an open_file whose ensure_initialized succeeded issues exactly one
\* engine open call, the last call of the operation; at that call the
\* file's configuration record already holds the address of the file's own
\* cache; the call carries the file, the path and exactly the flag bits of
\* the options (READWRITE being READ|WRITE, 3); open_file returns the
\* translated status of that call.
C16_OpenCall ==
    (last.op = "open_file" /\ Len(calls) > 0 /\ calls[1].rc = 0) =>
        LET c == calls[Len(calls)]
        IN  /\ Len(CallsOf("lfs_file_opencfg")) = 1
            /\ c.fn = "lfs_file_opencfg"
            /\ c.file = last.file
            /\ c.path = last.path
            /\ c.file_buffer = "file.cache"
            /\ \A v \in C16_Flags : HasFlag(c.flags, v) <=> v \in last.options
            /\ last.options = READWRITE => c.flags = READ + WRITE
            /\ last.ret = result_from(c.rc)
            /\ (last.ret = "Ok") <=> (c.rc = 0)

\* C16 witness: an open_file with READWRITE reached the engine with the
\* flag bits 3 and the file's cache bound.
C16_Witness ==
    /\ last.op = "open_file" /\ last.options = READWRITE
    /\ Len(calls) = 2 /\ calls[2].fn = "lfs_file_opencfg"
    /\ calls[2].flags = 3 /\ calls[2].file_buffer = "file.cache"

\* A number below 2^31 as a 64-bit value.
C17_Wide(n) == <<n % Limb, (n \div Limb) % Limb, 0, 0>>

\* K * B for K = q * 2^16 + r, from the two small products r * B and q * B.
C17_BlockStart(k, b) ==
    LET lo == C17_Wide((k % Limb) * b)
        hi == C17_Wide((k \div Limb) * b)
    IN  WideAdd(lo, <<0, hi[1], hi[2], hi[3]>>)

\* C17: the erase callback for block K < block count makes exactly one
\* Storage::erase call, at byte offset K * block size and of length block
\* size: it ends where block K + 1 starts.
C17_EraseOneBlock ==
    (fs.alive /\ cb.fn = "erase") =>
        /\ ~cb.panic
        /\ cb.block < geometry.block_count
        /\ Len(cb.storage) = 1
        /\ cb.storage[1].op = "erase"
        /\ cb.storage[1].off = C17_BlockStart(cb.block, geometry.block_size)
        /\ cb.storage[1].len = geometry.block_size
        /\ WideAdd(cb.storage[1].off, C17_Wide(cb.storage[1].len))
              = C17_BlockStart(cb.block + 1, geometry.block_size)

\* C17 witness: the erase of block 65536 of a Storage of 65537 blocks of
\* 65536 bytes, at byte offset 2^32.
C17_Witness ==
    /\ geometry = BigGeometry
    /\ cb.fn = "erase" /\ cb.block = 256 * 256
    /\ cb.storage[1].off = <<0, 0, 1, 0>>

\* C18: a sync callback returns 0, makes no Storage call, and leaves the
\* configuration record, the Filesystem and what the Storage holds
\* unchanged.
C18_SyncNoOp ==
    [][cb'.fn = "sync" =>
          /\ cb'.ret = 0
          /\ cb'.storage = <<>>
          /\ ~cb'.panic
          /\ fs' = fs
          /\ disk' = disk
          /\ files' = files]_vars

\* C18 witness: a sync callback was invoked on a configured Filesystem.
C18_Witness ==
    /\ cb.fn = "sync" /\ cb.ret = 0 /\ cb.storage = <<>>
    /\ fs.alive /\ cb.context = StorageAddr

\* C19: a read, prog or erase callback that forwarded to the Storage
\* returns 0 exactly when the Storage operation returned Ok, and the
\* negative I/O-error code when it returned an error.
C19_StatusForwarded ==
    (cb.fn \in {"read", "prog", "erase"} /\ ~cb.panic) =>
        /\ Len(cb.storage) = 1
        /\ (cb.ret = 0) <=> (cb.storage[1].res = "Ok")
        /\ cb.storage[1].res # "Ok" => (cb.ret < 0 /\ cb.ret = LFS_ERR_IO)

\* C19 witness: a prog callback whose Storage::write failed returned the
\* I/O-error code.
C19_Witness ==
    /\ cb.fn = "prog" /\ ~cb.panic
    /\ cb.storage[1].res = "Err" /\ cb.ret = LFS_ERR_IO

\* C20: the geometry of the configuration record is that of the Storage
\* and of what is allocated: block size (the one every callback uses),
\* cache size (read cache, write cache, RawFile cache), lookahead size;
\* whatever configure has done, the record differs from the one
\* Allocation::new assembled in context and the three buffer pointers only.
C20_GeometryAgrees ==
    fs.alive =>
        /\ fs.config.block_size = geometry.block_size
        /\ fs.config.cache_size = fs.cache.read
        /\ fs.config.cache_size = fs.cache.write
        /\ fs.config.cache_size = RawFileCache(geometry)
        /\ fs.config.lookahead_size = fs.cache.lookahead
        /\ [fs.config EXCEPT !.context = "null", !.read_buffer = "null",
                             !.prog_buffer = "null", !.lookahead_buffer = "null"]
              = NewConfig(geometry)
        /\ fs.config.read = "lfs_config_read" /\ fs.config.prog = "lfs_config_prog"
        /\ fs.config.erase = "lfs_config_erase" /\ fs.config.sync = "lfs_config_sync"
        /\ (cb.fn = "erase" /\ ~cb.panic) => cb.storage[1].len = fs.config.block_size
        /\ (cb.fn \in {"read", "prog"} /\ ~cb.panic) =>
              cb.storage[1].off =
                  u32_offset(cb.block, fs.config.block_size, cb.off).val

\* C20 witness: after configure and a callback, the record of the Storage
\* with 65536-byte blocks still carries that block size and its cache size.
C20_Witness ==
    /\ fs.alive /\ geometry = BigGeometry
    /\ fs.config.context = StorageAddr
    /\ cb.fn = "prog"
    /\ fs.config.block_size = 256 * 256 /\ fs.config.cache_size = 128

====
